---- MODULE Spec2Model ----
(***************************************************************************)
(* Group logic of the twisted Edwards curve -x^2 + y^2 = 1 + d*x^2*y^2     *)
(* (package group): extended (X, Y, Z, T) and projective (X, Y, Z) points, *)
(* their conversions, the unified addition and the doubling formulas.      *)
(*                                                                         *)
(* The repository holds two revisions of the package.  Definitions that    *)
(* differ between them carry a suffix: _A for src/unnamed/part_000 and _B  *)
(* for src/internal/group/ge.go.  Definitions without a suffix are the     *)
(* same in both files.                                                     *)
(*                                                                         *)
(* The field (package radix51) is not part of the sources; it is modelled  *)
(* as the prime field GF(P) over canonical residues 0..P-1.  The modulus   *)
(* 2^255 - 19 is scaled down to a small prime with the same shape:         *)
(* P = 1 (mod 4), so that a = -1 is a square, and d = -121665/121666 is a  *)
(* non-square of GF(P).                                                    *)
(***************************************************************************)
EXTENDS Integers, FiniteSets, Sequences, TLC

\* ------------------------------------------------------------------ bounds

\* Index of the field the model runs over, into Moduli.
FieldIx == 1

\* Primes P = 1 (mod 4) for which -121665/121666 is a non-square of GF(P).
Moduli == <<13, 17>>

\* Input representations of a curve point (x, y) are (x*z, y*z, z, x*y*z)
\* for z in 1..MaxZ.
MaxZ == 2

\* Arbitrary (not necessarily on-curve) inputs have coordinates in 0..MaxCoord.
MaxCoord == 1

\* ------------------------------------------------------------------- field

P == Moduli[FieldIx]

Fe == 0 .. (P - 1)

FeZero == 0

FeOne == 1

FieldTwo == 2 % P

FeFromBig(n) == n % P

FeToBig(a) == a % P

FeAdd(a, b) == (a + b) % P

FeSub(a, b) == (a + P - b) % P

FeNeg(a) == (P - a) % P

FeMul(a, b) == (a * b) % P

FeSquare(a) == (a * a) % P

RECURSIVE FePow(_, _)
FePow(a, n) == IF n = 0 THEN 1 ELSE FeMul(a, FePow(a, n - 1))

\* Inversion by Fermat's little theorem, a^(P-2); the inverse of 0 is 0.
InverseTable == [a \in Fe |-> FePow(a, P - 2)]

FeInvert(a) == InverseTable[a]

\* The curve constant d = -121665/121666 and its double.
D == FeMul(FeNeg(121665 % P), FeInvert(121666 % P))

twoD == FeAdd(D, D)

\* ------------------------------------------------------------------ points

Regs == {"v", "w"}

\* A Go variable before any assignment: every limb is zero.
ZeroValueE == [X |-> 0, Y |-> 0, Z |-> 0, T |-> 0]

ZeroValueP == [X |-> 0, Y |-> 0, Z |-> 0]

\* Extended points live in a memory m, a function from names to
\* ExtendedGroupElement values; a method's pointer arguments are names, so
\* that two arguments may name the same element.

\* FromAffine with Z cleared instead of set to one.
ExtFromAffine_ZCleared(m, v, x, y) ==
    LET m1 == [m  EXCEPT ![v].X = FeFromBig(x)]
        m2 == [m1 EXCEPT ![v].Y = FeFromBig(y)]
        m3 == [m2 EXCEPT ![v].T = FeMul(m2[v].X, m2[v].Y)]
        m4 == [m3 EXCEPT ![v].Z = FeZero]
    IN  m4

\* v.FromAffine(x, y)
ExtFromAffine(m, v, x, y) ==
    LET m1 == [m  EXCEPT ![v].X = FeFromBig(x)]
        m2 == [m1 EXCEPT ![v].Y = FeFromBig(y)]
        m3 == [m2 EXCEPT ![v].T = FeMul(m2[v].X, m2[v].Y)]
        m4 == [m3 EXCEPT ![v].Z = FeOne]
    IN  m4

\* ToAffine of either representation: only X, Y, Z are read.
ToAffine(e) ==
    LET zinv == FeInvert(e.Z)
        x    == FeMul(e.X, zinv)
        y    == FeMul(e.Y, zinv)
    IN  <<FeToBig(x), FeToBig(y)>>

\* v.ToProjective()
ToProjective(e) == [X |-> e.X, Y |-> e.Y, Z |-> e.Z]

\* v.Zero()
ExtZero(m, v) ==
    LET m1 == [m  EXCEPT ![v].X = FeZero]
        m2 == [m1 EXCEPT ![v].Y = FeOne]
        m3 == [m2 EXCEPT ![v].Z = FeOne]
        m4 == [m3 EXCEPT ![v].T = FeZero]
    IN  m4

\* Add with D <-- Z1*Z2, the doubling of the product left out.
ExtAdd_NoDoubleZ(m, v, p1, p2) ==
    LET A  == FeMul(FeSub(m[p1].Y, m[p1].X), FeSub(m[p2].Y, m[p2].X))
        B  == FeMul(FeAdd(m[p1].Y, m[p1].X), FeAdd(m[p2].Y, m[p2].X))
        C  == FeMul(FeMul(m[p1].T, m[p2].T), twoD)
        DD == FeMul(m[p1].Z, m[p2].Z)
        E  == FeSub(B, A)
        F  == FeSub(DD, C)
        G  == FeAdd(DD, C)
        H  == FeAdd(B, A)
    IN  [m EXCEPT ![v] = [X |-> FeMul(E, F), Y |-> FeMul(G, H),
                          T |-> FeMul(E, H), Z |-> FeMul(F, G)]]

\* Add with A <-- (Y1-X1)*(Y2+X2), the sign of the second factor wrong.
ExtAdd_MixedSigns(m, v, p1, p2) ==
    LET A  == FeMul(FeSub(m[p1].Y, m[p1].X), FeAdd(m[p2].Y, m[p2].X))
        B  == FeMul(FeAdd(m[p1].Y, m[p1].X), FeAdd(m[p2].Y, m[p2].X))
        C  == FeMul(FeMul(m[p1].T, m[p2].T), twoD)
        Z2 == FeMul(m[p1].Z, m[p2].Z)
        DD == FeAdd(Z2, Z2)
        E  == FeSub(B, A)
        F  == FeSub(DD, C)
        G  == FeAdd(DD, C)
        H  == FeAdd(B, A)
    IN  [m EXCEPT ![v] = [X |-> FeMul(E, F), Y |-> FeMul(G, H),
                          T |-> FeMul(E, H), Z |-> FeMul(F, G)]]

\* Add with X3 written as soon as E and F are known, and H computed after
\* it from the fields of p1 and p2 as they are then.
ExtAdd_EarlyWrite(m, v, p1, p2) ==
    LET A  == FeMul(FeSub(m[p1].Y, m[p1].X), FeSub(m[p2].Y, m[p2].X))
        B  == FeMul(FeAdd(m[p1].Y, m[p1].X), FeAdd(m[p2].Y, m[p2].X))
        C  == FeMul(FeMul(m[p1].T, m[p2].T), twoD)
        Z2 == FeMul(m[p1].Z, m[p2].Z)
        DD == FeAdd(Z2, Z2)
        E  == FeSub(B, A)
        F  == FeSub(DD, C)
        G  == FeAdd(DD, C)
        m1 == [m EXCEPT ![v].X = FeMul(E, F)]
        A1 == FeMul(FeSub(m1[p1].Y, m1[p1].X), FeSub(m1[p2].Y, m1[p2].X))
        B1 == FeMul(FeAdd(m1[p1].Y, m1[p1].X), FeAdd(m1[p2].Y, m1[p2].X))
        H  == FeAdd(B1, A1)
    IN  [m1 EXCEPT ![v].Y = FeMul(G, H), ![v].T = FeMul(E, H),
                   ![v].Z = FeMul(F, G)]

\* v.Add(p1, p2), statement by statement: the temporaries are computed from
\* the memory as it is on entry, then the four fields of v are written.
ExtAdd(m, v, p1, p2) ==
    LET tmp1a == FeSub(m[p1].Y, m[p1].X)
        tmp2a == FeSub(m[p2].Y, m[p2].X)
        A     == FeMul(tmp1a, tmp2a)
        tmp1b == FeAdd(m[p1].Y, m[p1].X)
        tmp2b == FeAdd(m[p2].Y, m[p2].X)
        B     == FeMul(tmp1b, tmp2b)
        tmp1c == FeMul(m[p1].T, m[p2].T)
        C     == FeMul(tmp1c, twoD)
        tmp1d == FeMul(m[p1].Z, m[p2].Z)
        DD    == FeAdd(tmp1d, tmp1d)
        E     == FeSub(B, A)
        F     == FeSub(DD, C)
        G     == FeAdd(DD, C)
        H     == FeAdd(B, A)
        m1    == [m  EXCEPT ![v].X = FeMul(E, F)]
        m2    == [m1 EXCEPT ![v].Y = FeMul(G, H)]
        m3    == [m2 EXCEPT ![v].T = FeMul(E, H)]
        m4    == [m3 EXCEPT ![v].Z = FeMul(F, G)]
    IN  m4

\* Double with C <-- Z1^2, the doubling of the square left out.
ExtDouble_A_NoDoubleZ(m, v) ==
    LET A  == FeSquare(m[v].X)
        B  == FeSquare(m[v].Y)
        C  == FeSquare(m[v].Z)
        DD == FeNeg(A)
        E  == FeSub(FeSub(FeSquare(FeAdd(m[v].X, m[v].Y)), A), B)
        G  == FeAdd(DD, B)
        F  == FeSub(G, C)
        H  == FeSub(DD, B)
    IN  [m EXCEPT ![v] = [X |-> FeMul(E, F), Y |-> FeMul(G, H),
                          T |-> FeMul(E, H), Z |-> FeMul(F, G)]]

\* v.Double() of part_000: the dedicated doubling, written into v.
ExtDouble_A(m, v) ==
    LET A   == FeSquare(m[v].X)
        B   == FeSquare(m[v].Y)
        C0  == FeSquare(m[v].Z)
        C   == FeAdd(C0, C0)
        DD  == FeNeg(A)
        t0a == FeAdd(m[v].X, m[v].Y)
        t0  == FeSquare(t0a)
        E0  == FeSub(t0, A)
        E   == FeSub(E0, B)
        G   == FeAdd(DD, B)
        F   == FeSub(G, C)
        H   == FeSub(DD, B)
        m1  == [m  EXCEPT ![v].X = FeMul(E, F)]
        m2  == [m1 EXCEPT ![v].Y = FeMul(G, H)]
        m3  == [m2 EXCEPT ![v].T = FeMul(E, H)]
        m4  == [m3 EXCEPT ![v].Z = FeMul(F, G)]
    IN  m4

\* v.FromAffine(x, y) on a projective element, part_000.
PrjFromAffine_A(x, y) == [X |-> FeFromBig(x), Y |-> FeFromBig(y), Z |-> FeZero]

\* v.FromAffine(x, y) on a projective element, ge.go.
PrjFromAffine_B(x, y) == [X |-> FeFromBig(x), Y |-> FeFromBig(y), Z |-> FeOne]

\* ToExtended with Z copied instead of squared.
ToExtended_A_ZCopied(p) ==
    [X |-> FeMul(p.X, p.Z), Y |-> FeMul(p.Y, p.Z),
     T |-> FeMul(p.X, p.Y), Z |-> p.Z]

\* v.ToExtended() of part_000: (XZ, YZ, XY, Z^2), no inversion.
ToExtended_A(p) ==
    [X |-> FeMul(p.X, p.Z), Y |-> FeMul(p.Y, p.Z),
     T |-> FeMul(p.X, p.Y), Z |-> FeSquare(p.Z)]

\* v.ToExtended() of ge.go: (X, Y, Z, XY/Z).
ToExtended_B(p) ==
    LET zinv == FeInvert(p.Z)
        T0   == FeMul(p.X, p.Y)
    IN  [X |-> p.X, Y |-> p.Y, Z |-> p.Z, T |-> FeMul(T0, zinv)]

\* v.Zero() on a projective element.
PrjZero == [X |-> FeZero, Y |-> FeOne, Z |-> FeOne]

\* DoubleZ1 with B <-- X1^2 + Y1^2, the cross term left out.
DoubleZ1Locals_A_NoCross(v0) ==
    LET t0 == FeSquare(v0.X)
        t1 == FeSquare(v0.Y)
        B  == FeAdd(t0, t1)
        E  == FeNeg(t0)
        F  == FeAdd(E, t1)
    IN  [p |-> [X |-> F, Y |-> FeSub(E, t1), Z |-> FeSub(F, FieldTwo)],
         q |-> [X |-> FeMul(FeSub(FeSub(B, t0), t1), FeSub(F, FieldTwo)),
                Y |-> FeMul(F, FeSub(E, t1)),
                Z |-> FeSub(FeSub(FeSquare(F), F), F)]]

\* The body of DoubleZ1 of part_000 after p = *v: each assignment to a field
\* of the locals p and q is a numbered version of that field; the locals as
\* the body leaves them.
DoubleZ1Locals_A(v0) ==
    LET pX0 == v0.X
        pY0 == v0.Y
        t0  == FeSquare(pX0)
        t1  == FeSquare(pY0)
        pZ1 == FeAdd(pX0, pY0)
        qX1 == FeSquare(pZ1)
        qZ1 == FeNeg(t0)
        pX1 == FeAdd(qZ1, t1)
        pY1 == FeSub(qX1, t0)
        pY2 == FeSub(pY1, t1)
        pZ2 == FeSub(pX1, FieldTwo)
        qX2 == FeMul(pY2, pZ2)
        pY3 == FeSub(qZ1, t1)
        qY1 == FeMul(pX1, pY3)
        qZ2 == FeSquare(pX1)
        qZ3 == FeSub(qZ2, pX1)
        qZ4 == FeSub(qZ3, pX1)
    IN  [p |-> [X |-> pX1, Y |-> pY3, Z |-> pZ2],
         q |-> [X |-> qX2, Y |-> qY1, Z |-> qZ4]]

\* The body of DoubleZ1 of ge.go: B is X^2 + Y^2 + 2*(X*Y).
DoubleZ1Locals_B(v0) ==
    LET pX0 == v0.X
        pY0 == v0.Y
        t0  == FeSquare(pX0)
        t1  == FeSquare(pY0)
        pZ1 == FeMul(pX0, pY0)
        qX1 == FeAdd(t0, t1)
        qX2 == FeAdd(qX1, pZ1)
        qX3 == FeAdd(qX2, pZ1)
        qZ1 == FeNeg(t0)
        pX1 == FeAdd(qZ1, t1)
        pY1 == FeSub(qX3, t0)
        pY2 == FeSub(pY1, t1)
        pZ2 == FeSub(pX1, FieldTwo)
        qX4 == FeMul(pY2, pZ2)
        pY3 == FeSub(qZ1, t1)
        qY1 == FeMul(pX1, pY3)
        qZ2 == FeSquare(pX1)
        qZ3 == FeSub(qZ2, pX1)
        qZ4 == FeSub(qZ3, pX1)
    IN  [p |-> [X |-> pX1, Y |-> pY3, Z |-> pZ2],
         q |-> [X |-> qX4, Y |-> qY1, Z |-> qZ4]]

\* v.DoubleZ1(): the receiver as the call leaves it (the body works on the
\* copy p, never on v), and the element q returned.
DoubleZ1_A(v0) == [recv |-> v0, q |-> DoubleZ1Locals_A(v0).q]

DoubleZ1_B(v0) == [recv |-> v0, q |-> DoubleZ1Locals_B(v0).q]

\* p.Double() on a projective element: ge.go calls it and neither file
\* defines it.  The doubling formula of the extended Double, which reads
\* only X, Y and Z, with T dropped from the result.
PrjDouble(p) ==
    LET A  == FeSquare(p.X)
        B  == FeSquare(p.Y)
        C  == FeAdd(FeSquare(p.Z), FeSquare(p.Z))
        DD == FeNeg(A)
        E  == FeSub(FeSub(FeSquare(FeAdd(p.X, p.Y)), A), B)
        G  == FeAdd(DD, B)
        F  == FeSub(G, C)
        H  == FeSub(DD, B)
    IN  [X |-> FeMul(E, F), Y |-> FeMul(G, H), Z |-> FeMul(F, G)]

\* v.Double() of ge.go: the element returned; no field of v is written.
ExtDouble_B(m, v) == ToExtended_B(PrjDouble(ToProjective(m[v])))

\* w.Add(P, Q) and w.Double() on values, with a receiver distinct from the
\* inputs: the value left in the receiver.
AddValues(e1, e2) ==
    ExtAdd([n \in {"p1", "p2", "out"} |->
              IF n = "p1" THEN e1 ELSE IF n = "p2" THEN e2 ELSE ZeroValueE],
           "out", "p1", "p2")["out"]

DoubleValue(e) == ExtDouble_A([n \in {"out"} |-> e], "out")["out"]

ZeroElement == ExtZero([n \in {"out"} |-> ZeroValueE], "out")["out"]

\* ------------------------------------------------------------ the curve

\* -x^2 + y^2 = 1 + d*x^2*y^2 over GF(P), for residues x, y.
OnCurve(x, y) ==
    LET xx == FeSquare(x)
        yy == FeSquare(y)
    IN  FeSub(yy, xx) = FeAdd(FeOne, FeMul(D, FeMul(xx, yy)))

\* The affine points of the curve, as pairs of canonical residues.
CurvePoints == {xy \in Fe \X Fe : OnCurve(xy[1], xy[2])}

\* An element with X, Y, Z and Z # 0 represents the affine point (X/Z, Y/Z).
SamePoint(e1, e2) ==
    /\ e1.Z # 0
    /\ e2.Z # 0
    /\ ToAffine(e1) = ToAffine(e2)

\* T*Z = X*Y, the cross invariant of extended coordinates.
CrossInvariant(e) == FeMul(e.T, e.Z) = FeMul(e.X, e.Y)

\* The representation invariant of an extended point.
ValidExt(e) ==
    /\ e.Z # 0
    /\ CrossInvariant(e)
    /\ OnCurve(ToAffine(e)[1], ToAffine(e)[2])

\* ------------------------------------------------------------------ state

VARIABLES
    ext,    \* the caller's extended elements, by name
    prj,    \* the caller's ephemeral projective element
    live,   \* whether prj holds a value that has not been consumed yet
    call,   \* the last call made by a harness step, <<>> when none
    old,    \* ext and prj as they were when that call was made
    ret     \* what that call returned

vars == <<ext, prj, live, call, old, ret>>

NoCall == [op |-> "none"]

NoOld == <<>>

NoRet == [kind |-> "none"]

\* ------------------------------------------------- the chain of operations
\* A caller holds two extended elements and chains the package's operations
\* on them.  A projective element is an ephemeral intermediate value: it is
\* made by ToProjective, possibly doubled by DoubleZ1 when its Z is 1, and
\* consumed by ToExtended.

Init ==
    /\ ext = ExtZero(ExtZero([r \in Regs |-> ZeroValueE], "v"), "w")
    /\ prj = ZeroValueP
    /\ live = FALSE
    /\ call = NoCall
    /\ old = NoOld
    /\ ret = NoRet

Zero(r) ==
    /\ ~live
    /\ ext' = ExtZero(ext, r)
    /\ UNCHANGED <<prj, live, call, old, ret>>

FromAffine(r, xy) ==
    /\ ~live
    /\ ext' = ExtFromAffine(ext, r, xy[1], xy[2])
    /\ UNCHANGED <<prj, live, call, old, ret>>

Add(r, p1, p2) ==
    /\ ~live
    /\ ext' = ExtAdd(ext, r, p1, p2)
    /\ UNCHANGED <<prj, live, call, old, ret>>

Double(r) ==
    /\ ~live
    /\ ext' = ExtDouble_A(ext, r)
    /\ UNCHANGED <<prj, live, call, old, ret>>

ToProj(r) ==
    /\ ~live
    /\ prj' = ToProjective(ext[r])
    /\ live' = TRUE
    /\ UNCHANGED <<ext, call, old, ret>>

DoubleZ1A ==
    /\ live
    /\ prj.Z = FeOne
    /\ prj' = DoubleZ1_A(prj).q
    /\ UNCHANGED <<ext, live, call, old, ret>>

DoubleZ1B ==
    /\ live
    /\ prj.Z = FeOne
    /\ prj' = DoubleZ1_B(prj).q
    /\ UNCHANGED <<ext, live, call, old, ret>>

ToExtA(r) ==
    /\ live
    /\ ext' = [ext EXCEPT ![r] = ToExtended_A(prj)]
    /\ prj' = ZeroValueP
    /\ live' = FALSE
    /\ UNCHANGED <<call, old, ret>>

ToExtB(r) ==
    /\ live
    /\ ext' = [ext EXCEPT ![r] = ToExtended_B(prj)]
    /\ prj' = ZeroValueP
    /\ live' = FALSE
    /\ UNCHANGED <<call, old, ret>>

Next ==
    \/ \E r \in Regs : Zero(r)
    \/ \E r \in Regs, xy \in CurvePoints : FromAffine(r, xy)
    \/ \E r, p1, p2 \in Regs : Add(r, p1, p2)
    \/ \E r \in Regs : Double(r)
    \/ \E r \in Regs : ToProj(r)
    \/ DoubleZ1A
    \/ DoubleZ1B
    \/ \E r \in Regs : ToExtA(r)
    \/ \E r \in Regs : ToExtB(r)

Spec == Init /\ [][Next]_vars

\* ------------------------------------------------------------- the closure

\* C1: every extended element the chain produces has Z # 0, T*Z = X*Y, and
\* its affine point (X/Z, Y/Z) lies on the curve.
ClosureInvariant == \A r \in Regs : ValidExt(ext[r])

\* ----------------------------------------------------- one call on inputs
\* The caller's two extended elements hold any of a bounded set of values;
\* one operation is called on them, and what it was called on, what it
\* returned and the memory it started from are recorded.

\* The representations (x*z, y*z, z, x*y*z) of the curve's points.
CurveInputs ==
    {[X |-> FeMul(xy[1], z), Y |-> FeMul(xy[2], z), Z |-> z,
      T |-> FeMul(FeMul(xy[1], xy[2]), z)] :
        xy \in CurvePoints, z \in {k \in 1 .. MaxZ : k % P # 0}}

\* Elements that need not be curve points, the zero value among them.
SmallInputs ==
    [X : 0 .. MaxCoord, Y : 0 .. MaxCoord, Z : 0 .. MaxCoord, T : 0 .. MaxCoord]

ExtInputs == CurveInputs \cup SmallInputs

InitPoint ==
    /\ ext \in [Regs -> ExtInputs]
    /\ prj = ZeroValueP
    /\ live = FALSE
    /\ call = NoCall
    /\ old = NoOld
    /\ ret = NoRet

Snapshot(p0) == [ext |-> ext, prj |-> p0]

Receiver(r) == [kind |-> "receiver", reg |-> r]

CallZero(r) ==
    /\ call.op = "none"
    /\ ext' = ExtZero(ext, r)
    /\ call' = [op |-> "Zero", r |-> r]
    /\ old' = Snapshot(prj)
    /\ ret' = Receiver(r)
    /\ UNCHANGED <<prj, live>>

CallAdd(r, p1, p2) ==
    /\ call.op = "none"
    /\ ext' = ExtAdd(ext, r, p1, p2)
    /\ call' = [op |-> "Add", r |-> r, p1 |-> p1, p2 |-> p2]
    /\ old' = Snapshot(prj)
    /\ ret' = Receiver(r)
    /\ UNCHANGED <<prj, live>>

CallDoubleA(r) ==
    /\ call.op = "none"
    /\ ext' = ExtDouble_A(ext, r)
    /\ call' = [op |-> "Double", r |-> r]
    /\ old' = Snapshot(prj)
    /\ ret' = Receiver(r)
    /\ UNCHANGED <<prj, live>>

CallDoubleB(r) ==
    /\ call.op = "none"
    /\ call' = [op |-> "DoubleB", r |-> r]
    /\ old' = Snapshot(prj)
    /\ ret' = [kind |-> "fresh", e |-> ExtDouble_B(ext, r)]
    /\ UNCHANGED <<ext, prj, live>>

\* v.ToProjective().ToExtended()
CallRoundTripA(r) ==
    /\ call.op = "none"
    /\ call' = [op |-> "RoundTripA", r |-> r]
    /\ old' = Snapshot(prj)
    /\ ret' = [kind |-> "fresh", e |-> ToExtended_A(ToProjective(ext[r]))]
    /\ UNCHANGED <<ext, prj, live>>

CallRoundTripB(r) ==
    /\ call.op = "none"
    /\ call' = [op |-> "RoundTripB", r |-> r]
    /\ old' = Snapshot(prj)
    /\ ret' = [kind |-> "fresh", e |-> ToExtended_B(ToProjective(ext[r]))]
    /\ UNCHANGED <<ext, prj, live>>

\* p = v.ToProjective(); q = p.DoubleZ1().  The call is made whatever Z is.
CallDoubleZ1A(r) ==
    /\ call.op = "none"
    /\ LET p0  == ToProjective(ext[r])
           res == DoubleZ1_A(p0)
       IN  /\ prj' = res.recv
           /\ old' = Snapshot(p0)
           /\ ret' = [kind |-> "fresh", p |-> res.q]
    /\ live' = TRUE
    /\ call' = [op |-> "DoubleZ1A", r |-> r]
    /\ UNCHANGED ext

CallDoubleZ1B(r) ==
    /\ call.op = "none"
    /\ LET p0  == ToProjective(ext[r])
           res == DoubleZ1_B(p0)
       IN  /\ prj' = res.recv
           /\ old' = Snapshot(p0)
           /\ ret' = [kind |-> "fresh", p |-> res.q]
    /\ live' = TRUE
    /\ call' = [op |-> "DoubleZ1B", r |-> r]
    /\ UNCHANGED ext

\* t.Add(P, Q); t.Add(t, R) against u.Add(Q, R); u.Add(P, u), with P and Q
\* the caller's two elements and R a third curve point.
AssocSteps(e1, e2, e3) ==
    LET m0 == [n \in {"P", "Q", "R", "t", "u"} |->
                 CASE n = "P" -> e1 [] n = "Q" -> e2 [] n = "R" -> e3
                   [] OTHER -> ZeroValueE]
        m1 == ExtAdd(m0, "t", "P", "Q")
        m2 == ExtAdd(m1, "t", "t", "R")
        m3 == ExtAdd(m2, "u", "Q", "R")
        m4 == ExtAdd(m3, "u", "P", "u")
    IN  m4

CallAssoc(e3) ==
    /\ call.op = "none"
    /\ \A r \in Regs : ValidExt(ext[r])
    /\ LET m == AssocSteps(ext["v"], ext["w"], e3)
       IN  ret' = [kind |-> "pair", left |-> m["t"], right |-> m["u"]]
    /\ call' = [op |-> "Assoc", e3 |-> e3]
    /\ old' = Snapshot(prj)
    /\ UNCHANGED <<ext, prj, live>>

NextPoint ==
    \/ \E r \in Regs : CallZero(r)
    \/ \E r, p1, p2 \in Regs : CallAdd(r, p1, p2)
    \/ \E r \in Regs : CallDoubleA(r)
    \/ \E r \in Regs : CallDoubleB(r)
    \/ \E r \in Regs : CallRoundTripA(r)
    \/ \E r \in Regs : CallRoundTripB(r)
    \/ \E r \in Regs : CallDoubleZ1A(r)
    \/ \E r \in Regs : CallDoubleZ1B(r)
    \/ \E e3 \in CurveInputs : CallAssoc(e3)

SpecPoint == InitPoint /\ [][NextPoint]_vars

\* ------------------------------------------------ the affine bridge
\* Elements are built from integers and read back.  The elements start as
\* Go leaves a declared variable; x and y are any integers of IntInputs.

IntInputs == 0 .. (2 * P - 1)

InitAffine ==
    /\ ext = [r \in Regs |-> ZeroValueE]
    /\ prj = ZeroValueP
    /\ live = FALSE
    /\ call = NoCall
    /\ old = NoOld
    /\ ret = NoRet

\* v.FromAffine(x, y); v.ToAffine()
CallExtFromAffine(r, x, y) ==
    /\ call.op = "none"
    /\ ext' = ExtFromAffine(ext, r, x, y)
    /\ call' = [op |-> "ExtFromAffine", r |-> r, x |-> x, y |-> y]
    /\ old' = Snapshot(prj)
    /\ ret' = [kind |-> "affine", xy |-> ToAffine(ext'[r])]
    /\ UNCHANGED <<prj, live>>

\* p.FromAffine(x, y); p.ToAffine(), part_000
CallPrjFromAffineA(x, y) ==
    /\ call.op = "none"
    /\ prj' = PrjFromAffine_A(x, y)
    /\ live' = TRUE
    /\ call' = [op |-> "PrjFromAffineA", x |-> x, y |-> y]
    /\ old' = Snapshot(prj)
    /\ ret' = [kind |-> "affine", xy |-> ToAffine(prj')]
    /\ UNCHANGED ext

\* p.FromAffine(x, y); p.ToAffine(), ge.go
CallPrjFromAffineB(x, y) ==
    /\ call.op = "none"
    /\ prj' = PrjFromAffine_B(x, y)
    /\ live' = TRUE
    /\ call' = [op |-> "PrjFromAffineB", x |-> x, y |-> y]
    /\ old' = Snapshot(prj)
    /\ ret' = [kind |-> "affine", xy |-> ToAffine(prj')]
    /\ UNCHANGED ext

NextAffine ==
    \/ \E r \in Regs, x, y \in IntInputs : CallExtFromAffine(r, x, y)
    \/ \E x, y \in IntInputs : CallPrjFromAffineA(x, y)
    \/ \E x, y \in IntInputs : CallPrjFromAffineB(x, y)

SpecAffine == InitAffine /\ [][NextAffine]_vars

\* ------------------------------------------------------------- properties

\* C1 is reached: an element with Z other than 0 and 1, which only Add,
\* Double and ToExtended produce, beside a different element.
ClosureWitness ==
    /\ ext["v"].Z \notin {0, 1}
    /\ ext["w"].Z \notin {0, 1}
    /\ ~SamePoint(ext["v"], ext["w"])
    /\ ToAffine(ext["v"]) # <<0, 1>>

\* C2: Add(P, Zero()) and Add(Zero(), P) represent the affine point of P,
\* for every curve point P, where Zero() is (0, 1, 1, 0).
GroupIdentity ==
    call.op = "Add" =>
        LET e1 == old.ext[call.p1]
            e2 == old.ext[call.p2]
        IN  /\ (ValidExt(e1) /\ e2 = ZeroElement) => SamePoint(ext[call.r], e1)
            /\ (ValidExt(e2) /\ e1 = ZeroElement) => SamePoint(ext[call.r], e2)

GroupIdentityWitness ==
    /\ call.op = "Add"
    /\ old.ext[call.p1] = ZeroElement
    /\ ZeroElement = [X |-> 0, Y |-> 1, Z |-> 1, T |-> 0]
    /\ ValidExt(old.ext[call.p2])
    /\ old.ext[call.p2].Z # 1
    /\ ToAffine(old.ext[call.p2]) # <<0, 1>>
    /\ ext[call.r] # old.ext[call.p2]
    /\ SamePoint(ext[call.r], old.ext[call.p2])

\* C3: for every curve point P with any Z # 0, Double() of P and Add(P, P)
\* represent the same affine point.
DoublingConsistency ==
    (call.op = "Double" /\ ValidExt(old.ext[call.r])) =>
        SamePoint(ext[call.r], AddValues(old.ext[call.r], old.ext[call.r]))

DoublingConsistencyWitness ==
    /\ call.op = "Double"
    /\ ValidExt(old.ext[call.r])
    /\ old.ext[call.r].Z # 1
    /\ ~SamePoint(ext[call.r], old.ext[call.r])
    /\ ext[call.r] # AddValues(old.ext[call.r], old.ext[call.r])
    /\ SamePoint(ext[call.r], AddValues(old.ext[call.r], old.ext[call.r]))

\* C4: on curve points Add is commutative and associative up to the affine
\* point represented, whatever the pair of inputs.
AddCommutativeAssociative ==
    /\ (call.op = "Add" /\ \A r \in Regs : ValidExt(old.ext[r])) =>
           SamePoint(ext[call.r],
                     AddValues(old.ext[call.p2], old.ext[call.p1]))
    /\ call.op = "Assoc" => SamePoint(ret.left, ret.right)

\* Inverse points: P + Q is the identity, and the third point is neither.
AddCommutativeAssociativeWitness ==
    /\ call.op = "Assoc"
    /\ ext["v"] # ext["w"]
    /\ ToAffine(AddValues(ext["v"], ext["w"])) = <<0, 1>>
    /\ ToAffine(ext["v"]) # <<0, 1>>
    /\ ~SamePoint(call.e3, ext["v"])
    /\ ~SamePoint(call.e3, ext["w"])
    /\ ret.left # ret.right
    /\ SamePoint(ret.left, ret.right)

\* C5: for a curve point P with Z = 1, DoubleZ1 of either file returns a
\* projective point with the affine coordinates of the extended Double() of
\* P converted to extended coordinates.
Z1FastPathConsistency ==
    (/\ call.op \in {"DoubleZ1A", "DoubleZ1B"}
     /\ old.prj.Z = 1
     /\ OnCurve(old.prj.X, old.prj.Y)) =>
        /\ SamePoint(ret.p, DoubleValue(ToExtended_A(old.prj)))
        /\ SamePoint(ret.p, DoubleValue(ToExtended_B(old.prj)))

Z1FastPathWitness ==
    /\ call.op = "DoubleZ1B"
    /\ old.prj.Z = 1
    /\ OnCurve(old.prj.X, old.prj.Y)
    /\ ret.p.Z \notin {0, 1}
    /\ ~SamePoint(ret.p, old.prj)
    /\ SamePoint(ret.p, DoubleValue(ToExtended_A(old.prj)))

\* C6: ProjectiveGroupElement.FromAffine(x, y) leaves (x mod p, y mod p, 1),
\* and ToAffine on it returns (x mod p, y mod p).
PrjFromAffineSetsZOne ==
    call.op \in {"PrjFromAffineA", "PrjFromAffineB"} =>
        /\ prj = [X |-> call.x % P, Y |-> call.y % P, Z |-> 1]
        /\ ret.xy = <<call.x % P, call.y % P>>

\* C7: for P with Z # 0 and T*Z = X*Y, ToExtended(ToProjective(P)) of either
\* file represents the affine point of P and satisfies T*Z = X*Y, so the two
\* variants return representations of the same point.
ConversionRoundTrip ==
    (/\ call.op \in {"RoundTripA", "RoundTripB"}
     /\ old.ext[call.r].Z # 0
     /\ CrossInvariant(old.ext[call.r])) =>
        /\ SamePoint(ret.e, old.ext[call.r])
        /\ CrossInvariant(ret.e)
        /\ SamePoint(ToExtended_A(ToProjective(old.ext[call.r])),
                     ToExtended_B(ToProjective(old.ext[call.r])))

ConversionRoundTripWitness ==
    /\ call.op = "RoundTripA"
    /\ old.ext[call.r].Z \notin {0, 1}
    /\ CrossInvariant(old.ext[call.r])
    /\ old.ext[call.r].T # 0
    /\ ret.e # old.ext[call.r]
    /\ ret.e # ToExtended_B(ToProjective(old.ext[call.r]))
    /\ SamePoint(ret.e, old.ext[call.r])

\* C8: for every on-curve (x, y), FromAffine(x, y) followed by ToAffine()
\* returns (x mod p, y mod p), both in [0, p).
ExtAffineRoundTrip ==
    (call.op = "ExtFromAffine" /\ OnCurve(call.x % P, call.y % P)) =>
        /\ ret.xy = <<call.x % P, call.y % P>>
        /\ ret.xy \in Fe \X Fe

ExtAffineRoundTripWitness ==
    /\ call.op = "ExtFromAffine"
    /\ OnCurve(call.x % P, call.y % P)
    /\ call.x >= P
    /\ call.y >= P
    /\ call.x % P # 0
    /\ ret.xy = <<call.x - P, call.y - P>>

\* C9: a call of Add whose receiver is one or both of its inputs leaves in
\* the receiver exactly the coordinates a call with a distinct receiver
\* writes, and leaves every other element as it was.
AddAliasingSafe ==
    call.op = "Add" =>
        /\ ext[call.r] = AddValues(old.ext[call.p1], old.ext[call.p2])
        /\ \A n \in Regs \ {call.r} : ext[n] = old.ext[n]

AddAliasingWitness ==
    /\ call.op = "Add"
    /\ call.r = call.p1
    /\ call.p1 = call.p2
    /\ ext[call.r] # old.ext[call.r]
    /\ \A f \in {"X", "Y", "Z", "T"} : ext[call.r][f] # old.ext[call.r][f]

\* C10: DoubleZ1 returns a new element and leaves its receiver as it was,
\* whereas Zero, Add and Double write their result into the receiver and
\* return that receiver.
ReceiverContract ==
    /\ call.op \in {"DoubleZ1A", "DoubleZ1B"} =>
           /\ prj = old.prj
           /\ ret.kind = "fresh"
    /\ call.op \in {"Zero", "Add", "Double", "DoubleB"} =>
           ret = Receiver(call.r)
    /\ call.op = "Zero" => ext[call.r] = ZeroElement
    /\ call.op = "Add" =>
           ext[call.r] = AddValues(old.ext[call.p1], old.ext[call.p2])
    /\ call.op \in {"Double", "DoubleB"} =>
           ext[call.r] = DoubleValue(old.ext[call.r])

====
